---------------------------- MODULE Spec2Model ----------------------------
(***************************************************************************)
(* Model of the calculation engine of the gilt ladder calculator           *)
(* (src/app.py, class GiltLadderCalculator): calculate_yield_to_maturity,  *)
(* calculate_tax_liability and create_bond_ladder.                         *)
(*                                                                         *)
(* The engine computes with Python floats, which are IEEE-754 binary64     *)
(* numbers.  A float is modelled by the exact value it holds,              *)
(*     (-1)^neg * m * 2^e,                                                 *)
(* with m an odd natural number of at most 53 bits (a sequence of 15-bit   *)
(* limbs, least significant first, because TLC computes with 32-bit       *)
(* integers), and every operation rounds its exact result to the nearest   *)
(* such number, ties to even, as the hardware does.  Overflow, subnormals  *)
(* and NaN lie far outside the amounts modelled and are left out.          *)
(***************************************************************************)
EXTENDS Integers, Sequences, FiniteSets, TLC

(***************************************************************************)
(* Natural numbers of any size: sequences of limbs, least significant      *)
(* first, no most-significant zero limb (zero is the empty sequence).      *)
(***************************************************************************)
LimbBits == 15
Base == 2^15

RECURSIVE BStrip(_)
BStrip(a) ==
    IF a = <<>> THEN a
    ELSE IF a[Len(a)] = 0 THEN BStrip(SubSeq(a, 1, Len(a) - 1)) ELSE a

RECURSIVE BFromNat(_)
BFromNat(n) == IF n = 0 THEN <<>> ELSE <<n % Base>> \o BFromNat(n \div Base)

BRest(a) == IF a = <<>> THEN a ELSE Tail(a)
BLow(a) == IF a = <<>> THEN 0 ELSE Head(a)

RECURSIVE BAddC(_, _, _)
BAddC(a, b, c) ==
    IF a = <<>> /\ b = <<>> THEN (IF c = 0 THEN <<>> ELSE <<c>>)
    ELSE LET s == BLow(a) + BLow(b) + c
         IN  <<s % Base>> \o BAddC(BRest(a), BRest(b), s \div Base)

BAdd(a, b) == BAddC(a, b, 0)

\* a - b - c for a >= b + c
RECURSIVE BSubC(_, _, _)
BSubC(a, b, c) ==
    IF a = <<>> THEN <<>>
    ELSE LET s == BLow(a) - BLow(b) - c
         IN  IF s < 0 THEN <<s + Base>> \o BSubC(BRest(a), BRest(b), 1)
             ELSE <<s>> \o BSubC(BRest(a), BRest(b), 0)

BSub(a, b) == BStrip(BSubC(a, b, 0))

\* -1, 0, 1 as a < b, a = b, a > b
RECURSIVE BCmpFrom(_, _, _)
BCmpFrom(a, b, i) ==
    IF i = 0 THEN 0
    ELSE IF a[i] < b[i] THEN -1
    ELSE IF a[i] > b[i] THEN 1
    ELSE BCmpFrom(a, b, i - 1)

BCmp(a, b) ==
    IF Len(a) < Len(b) THEN -1
    ELSE IF Len(a) > Len(b) THEN 1
    ELSE BCmpFrom(a, b, Len(a))

\* a * k + c for a limb k
RECURSIVE BMulSmallC(_, _, _)
BMulSmallC(a, k, c) ==
    IF a = <<>> THEN (IF c = 0 THEN <<>> ELSE <<c>>)
    ELSE LET s == Head(a) * k + c
         IN  <<s % Base>> \o BMulSmallC(Tail(a), k, s \div Base)

BMulSmall(a, k) == BStrip(BMulSmallC(a, k, 0))

RECURSIVE BMul(_, _)
BMul(a, b) ==
    IF a = <<>> \/ b = <<>> THEN <<>>
    ELSE BAdd(BMulSmall(a, Head(b)), BStrip(<<0>> \o BMul(a, Tail(b))))

BIsOdd(a) == a # <<>> /\ a[1] % 2 = 1

\* bit i of a (bit 0 is the least significant)
BBit(a, i) ==
    IF i \div LimbBits >= Len(a) THEN 0
    ELSE (a[(i \div LimbBits) + 1] \div 2^(i % LimbBits)) % 2

\* floor(a / 2^n)
BShr(a, n) ==
    LET d == n \div LimbBits
        s == n % LimbBits
    IN  IF d >= Len(a) THEN <<>>
        ELSE BStrip([i \in 1..(Len(a) - d) |->
                (a[i + d] \div 2^s)
                + (IF i + d < Len(a) THEN (a[i + d + 1] % 2^s) * 2^(LimbBits - s)
                   ELSE 0)])

\* a * 2^n
BShl(a, n) ==
    IF a = <<>> THEN a
    ELSE [i \in 1..(n \div LimbBits) |-> 0] \o BMulSmall(a, 2^(n % LimbBits))

BBitLen(a) ==
    IF a = <<>> THEN 0
    ELSE LimbBits * (Len(a) - 1)
         + (CHOOSE n \in 1..LimbBits : 2^(n - 1) <= a[Len(a)] /\ a[Len(a)] < 2^n)

\* whether a is a multiple of 2^n
BLowZero(a, n) == \A i \in 0..(n - 1) : BBit(a, i) = 0

\* the number of zero bits below the lowest set bit of a # 0
BTrailingZeros(a) ==
    LET w == CHOOSE i \in 1..Len(a) : a[i] # 0 /\ \A j \in 1..(i - 1) : a[j] = 0
        t == CHOOSE n \in 0..(LimbBits - 1) :
                 a[w] % 2^(n + 1) # 0 /\ a[w] % 2^n = 0
    IN  LimbBits * (w - 1) + t

\* the largest limb k from acc upward (bits above `bit` fixed) with d * k <= rem
RECURSIVE BQuotLimb(_, _, _, _)
BQuotLimb(rem, d, bit, acc) ==
    IF bit < 0 THEN acc
    ELSE IF BCmp(BMulSmall(d, acc + 2^bit), rem) <= 0
         THEN BQuotLimb(rem, d, bit - 1, acc + 2^bit)
         ELSE BQuotLimb(rem, d, bit - 1, acc)

\* quotient q and remainder r of n by d, d # 0: long division, limb by limb
RECURSIVE BDivMod(_, _)
BDivMod(n, d) ==
    IF n = <<>> THEN [q |-> <<>>, r |-> <<>>]
    ELSE LET h   == BDivMod(Tail(n), d)
             rem == BStrip(<<Head(n)>> \o h.r)
             k   == BQuotLimb(rem, d, LimbBits - 1, 0)
         IN  [q |-> BStrip(<<k>> \o h.q), r |-> BSub(rem, BMulSmall(d, k))]

(***************************************************************************)
(* binary64 values and their arithmetic, round to nearest, ties to even.   *)
(***************************************************************************)
Precision == 53

Zero == [neg |-> FALSE, m |-> <<>>, e |-> 0]

IsZero(x) == x.m = <<>>

\* the value m * 2^e with m made odd
Canon(neg, m, e) ==
    IF m = <<>> THEN Zero
    ELSE LET t == BTrailingZeros(m)
         IN  [neg |-> neg, m |-> BShr(m, t), e |-> e + t]

\* the binary64 nearest to (-1)^neg * (m + f) * 2^e, 0 <= f < 1, f > 0 iff sticky:
\* the bits below the 53 kept decide, the first of them (guard) and whether
\* anything follows it
Round(neg, m, e, sticky) ==
    LET len   == BBitLen(m)
        r     == IF len > Precision THEN len - Precision ELSE 0
        q     == BShr(m, r)
        guard == r > 0 /\ BBit(m, r - 1) = 1
        rest  == sticky \/ (r > 1 /\ ~BLowZero(m, r - 1))
        up    == guard /\ (rest \/ BIsOdd(q))
    IN  Canon(neg, IF up THEN BAdd(q, <<1>>) ELSE q, e + r)

FromInt(n) == IF n < 0 THEN Canon(TRUE, BFromNat(-n), 0) ELSE Canon(FALSE, BFromNat(n), 0)

FNeg(x) == IF IsZero(x) THEN x ELSE [x EXCEPT !.neg = ~x.neg]

FAbs(x) == [x EXCEPT !.neg = FALSE]

FMul(x, y) ==
    IF IsZero(x) \/ IsZero(y) THEN Zero
    ELSE Round(x.neg # y.neg, BMul(x.m, y.m), x.e + y.e, FALSE)

FAdd(x, y) ==
    IF IsZero(x) THEN y
    ELSE IF IsZero(y) THEN x
    ELSE LET emin == IF x.e < y.e THEN x.e ELSE y.e
             xm   == BShl(x.m, x.e - emin)
             ym   == BShl(y.m, y.e - emin)
             c    == BCmp(xm, ym)
         IN  IF x.neg = y.neg THEN Round(x.neg, BAdd(xm, ym), emin, FALSE)
             ELSE IF c = 0 THEN Zero
             ELSE IF c > 0 THEN Round(x.neg, BSub(xm, ym), emin, FALSE)
             ELSE Round(y.neg, BSub(ym, xm), emin, FALSE)

FSub(x, y) == FAdd(x, FNeg(y))

\* x / y for y # 0 (Python raises ZeroDivisionError before dividing by zero)
FDiv(x, y) ==
    IF IsZero(x) THEN Zero
    ELSE LET need == Precision + 3 + BBitLen(y.m) - BBitLen(x.m)
             k    == IF need > 0 THEN need ELSE 0
             qr   == BDivMod(BShl(x.m, k), y.m)
         IN  Round(x.neg # y.neg, qr.q, x.e - y.e - k, qr.r # <<>>)

FLe(x, y) == LET d == FSub(x, y) IN IsZero(d) \/ d.neg

FLt(x, y) == LET d == FSub(x, y) IN ~IsZero(d) /\ d.neg

\* the float a decimal literal p/q denotes (p, q integers, q > 0)
Dec(p, q) == FDiv(FromInt(p), FromInt(q))

(***************************************************************************)
(* GiltLadderCalculator.__init__: the 2024/25 thresholds.                  *)
(***************************************************************************)
personal_allowance == 12570
basic_rate_threshold == 50270
higher_rate_threshold == 125140

Hundred == FromInt(100)

(***************************************************************************)
(* calculate_yield_to_maturity.  A division by zero raises                 *)
(* ZeroDivisionError at the line that divides; nothing is returned.        *)
(***************************************************************************)
\* a slip: the average price is not halved
calculate_yield_to_maturity_no_half(price, face_value, coupon_rate, years_to_maturity) ==
    LET annual_coupon == FMul(face_value, FDiv(coupon_rate, Hundred))
        capital_gain  == FDiv(FSub(face_value, price), years_to_maturity)
        average_price == FAdd(face_value, price)
    IN  IF IsZero(years_to_maturity) \/ IsZero(average_price)
        THEN [outcome |-> "ZeroDivisionError", ytm |-> Zero]
        ELSE [outcome |-> "returned",
              ytm |-> FMul(FDiv(FAdd(annual_coupon, capital_gain), average_price),
                           Hundred)]

calculate_yield_to_maturity(price, face_value, coupon_rate, years_to_maturity) ==
    LET annual_coupon == FMul(face_value, FDiv(coupon_rate, Hundred))
        capital_gain  == FDiv(FSub(face_value, price), years_to_maturity)
        average_price == FDiv(FAdd(face_value, price), FromInt(2))
    IN  IF IsZero(years_to_maturity) \/ IsZero(average_price)
        THEN [outcome |-> "ZeroDivisionError", ytm |-> Zero]
        ELSE [outcome |-> "returned",
              ytm |-> FMul(FDiv(FAdd(annual_coupon, capital_gain), average_price),
                           Hundred)]

(***************************************************************************)
(* calculate_tax_liability: the if/elif chain over total_income and the    *)
(* returned dict.  There is no check of the arguments.                     *)
(***************************************************************************)
\* a slip: above the basic-rate threshold the whole income over the allowance is
\* taxed at the higher rate
tax_of_cliff(total_income) ==
    IF FLe(total_income, FromInt(personal_allowance)) THEN Zero
    ELSE IF FLe(total_income, FromInt(basic_rate_threshold))
         THEN FMul(FSub(total_income, FromInt(personal_allowance)), Dec(20, 100))
    ELSE IF FLe(total_income, FromInt(higher_rate_threshold))
         THEN FMul(FSub(total_income, FromInt(personal_allowance)), Dec(40, 100))
    ELSE FAdd(FMul(FromInt(higher_rate_threshold - personal_allowance), Dec(40, 100)),
              FMul(FSub(total_income, FromInt(higher_rate_threshold)), Dec(45, 100)))

\* a slip: the basic-rate tax is left out of the additional-rate branch
tax_of_dropped_band(total_income) ==
    IF FLe(total_income, FromInt(personal_allowance)) THEN Zero
    ELSE IF FLe(total_income, FromInt(basic_rate_threshold))
         THEN FMul(FSub(total_income, FromInt(personal_allowance)), Dec(20, 100))
    ELSE IF FLe(total_income, FromInt(higher_rate_threshold))
         THEN FAdd(FMul(FromInt(basic_rate_threshold - personal_allowance), Dec(20, 100)),
                   FMul(FSub(total_income, FromInt(basic_rate_threshold)), Dec(40, 100)))
    ELSE FAdd(FMul(FromInt(higher_rate_threshold - basic_rate_threshold), Dec(40, 100)),
              FMul(FSub(total_income, FromInt(higher_rate_threshold)), Dec(45, 100)))

tax_of(total_income) ==
    IF FLe(total_income, FromInt(personal_allowance)) THEN Zero
    ELSE IF FLe(total_income, FromInt(basic_rate_threshold))
         THEN FMul(FSub(total_income, FromInt(personal_allowance)), Dec(20, 100))
    ELSE IF FLe(total_income, FromInt(higher_rate_threshold))
         THEN LET basic_tax  == FMul(FromInt(basic_rate_threshold - personal_allowance),
                                     Dec(20, 100))
                  higher_tax == FMul(FSub(total_income, FromInt(basic_rate_threshold)),
                                     Dec(40, 100))
              IN  FAdd(basic_tax, higher_tax)
    ELSE LET basic_tax      == FMul(FromInt(basic_rate_threshold - personal_allowance),
                                    Dec(20, 100))
             higher_tax     == FMul(FromInt(higher_rate_threshold - basic_rate_threshold),
                                    Dec(40, 100))
             additional_tax == FMul(FSub(total_income, FromInt(higher_rate_threshold)),
                                    Dec(45, 100))
         IN  FAdd(FAdd(basic_tax, higher_tax), additional_tax)

\* a slip: the effective rate is left as a fraction, not a percentage
calculate_tax_liability_fraction(income, pension_income) ==
    LET total_income == FAdd(income, pension_income)
        tax          == tax_of(total_income)
    IN  [gross_income   |-> total_income,
         tax_liability  |-> tax,
         net_income     |-> FSub(total_income, tax),
         effective_rate |-> IF FLt(Zero, total_income)
                            THEN FDiv(tax, total_income)
                            ELSE Zero]

calculate_tax_liability(income, pension_income) ==
    LET total_income == FAdd(income, pension_income)
        tax          == tax_of(total_income)
    IN  [gross_income   |-> total_income,
         tax_liability  |-> tax,
         net_income     |-> FSub(total_income, tax),
         effective_rate |-> IF FLt(Zero, total_income)
                            THEN FMul(FDiv(tax, total_income), Hundred)
                            ELSE Zero]

(***************************************************************************)
(* create_bond_ladder, one loop iteration at a time: each iteration reads  *)
(* the system clock (datetime.now().year).                                 *)
(***************************************************************************)
\* a slip: the amount is split over one year too many
allocation_of_extra_year(total_investment, ladder_years) ==
    FDiv(total_investment, FromInt(ladder_years + 1))

\* line 61
allocation_of(total_investment, ladder_years) ==
    FDiv(total_investment, FromInt(ladder_years))

\* a slip: the slope is applied from the first year on (y instead of y - 1)
ladder_row_slope_from_first(total_investment, target_yield, allocation, y, now) ==
    LET estimated_yield == FAdd(target_yield, FMul(FromInt(y), Dec(1, 10)))
        annual_income   == FMul(allocation, FDiv(estimated_yield, Hundred))
    IN  [Maturity_Year         |-> now + y,
         Allocation            |-> allocation,
         Target_Yield          |-> estimated_yield,
         Annual_Income         |-> annual_income,
         Allocation_Percentage |-> FMul(FDiv(allocation, total_investment), Hundred)]

\* lines 65-75: the row of loop index y, built with the clock reading `now`
ladder_row(total_investment, target_yield, allocation, y, now) ==
    LET estimated_yield == FAdd(target_yield, FMul(FromInt(y - 1), Dec(1, 10)))
        annual_income   == FMul(allocation, FDiv(estimated_yield, Hundred))
    IN  [Maturity_Year         |-> now + y,
         Allocation            |-> allocation,
         Target_Yield          |-> estimated_yield,
         Annual_Income         |-> annual_income,
         Allocation_Percentage |-> FMul(FDiv(allocation, total_investment), Hundred)]

\* main, lines 166-168: the amount of the SIPP put into the ladder
sipp_invested_of(sipp_value, cash_buffer_percent) ==
    FSub(sipp_value, FMul(sipp_value, FDiv(cash_buffer_percent, Hundred)))

(***************************************************************************)
(* The inputs explored.                                                    *)
(***************************************************************************)
MaxLadderYears == 7
MaxTicks == 1
StartYear == 2025

YtmPrices  == {FromInt(-100), FromInt(95), FromInt(100), FromInt(3)}
YtmFaces   == {FromInt(100), FromInt(3)}
YtmCoupons == {Zero, Dec(425, 100), FromInt(5), FromInt(7), Dec(23, 100)}
YtmYears   == {Zero, FromInt(1), FromInt(5), Dec(25, 10)}

Incomes  == {FromInt(n) : n \in {-5000, 0, 1, 5000, 12569, 12570, 12571, 12572,
                                  12573, 12580, 20000, 27000, 37270, 37271, 37272,
                                  37273, 37280, 50000, 50270, 50271, 112140,
                                  112141, 112143, 125140, 125141, 200000}}
            \cup {Dec(125705, 10)}
Pensions == {FromInt(n) : n \in {-1, 0, 13000}} \cup {Dec(5, 10)}

LadderTotals == {FromInt(n) : n \in {0, 1000, 100000, 536750}}
LadderYears  == (-1)..MaxLadderYears
LadderYields == {Dec(45, 10), FromInt(2)}

SippValues  == {FromInt(0), FromInt(565000)}
CashBuffers == {FromInt(0), FromInt(5)}
SliderYears == 3..(IF MaxLadderYears < 10 THEN MaxLadderYears ELSE 10)

(***************************************************************************)
(* State.                                                                  *)
(***************************************************************************)
VARIABLES
    pc,                  \* "idle", "loop" (inside create_bond_ladder's for), "done"
    op,                  \* the operation called: "none", "ytm", "tax", "ladder"
    caller,              \* "none", "direct" or "main" (the front end)
    args,                \* the arguments of the call
    outcome,             \* "none", "returned" or "ZeroDivisionError"
    ytm,                 \* the float calculate_yield_to_maturity returned
    tax_calc,            \* the dict calculate_tax_liability returned
    ladder,              \* the rows of the DataFrame create_bond_ladder returned
    allocation_per_year, \* create_bond_ladder's local
    ladder_data,         \* create_bond_ladder's local list of rows
    year,                \* create_bond_ladder's loop variable
    clock,               \* the calendar year datetime.now() reports
    ticks                \* the number of times the year has turned

vars == <<pc, op, caller, args, outcome, ytm, tax_calc, ladder,
          allocation_per_year, ladder_data, year, clock, ticks>>

NoTax == [gross_income |-> Zero, tax_liability |-> Zero, net_income |-> Zero,
          effective_rate |-> Zero]
NoArgs == [none |-> TRUE]

Init ==
    /\ pc = "idle"
    /\ op = "none"
    /\ caller = "none"
    /\ args = NoArgs
    /\ outcome = "none"
    /\ ytm = Zero
    /\ tax_calc = NoTax
    /\ ladder = <<>>
    /\ allocation_per_year = Zero
    /\ ladder_data = <<>>
    /\ year = 0
    /\ clock = StartYear
    /\ ticks = 0

(***************************************************************************)
(* Operations.                                                             *)
(***************************************************************************)
CallYtm ==
    /\ pc = "idle"
    /\ \E price \in YtmPrices, face_value \in YtmFaces,
          coupon_rate \in YtmCoupons, years_to_maturity \in YtmYears :
          LET r == calculate_yield_to_maturity(price, face_value, coupon_rate,
                                               years_to_maturity)
          IN  /\ args' = [price |-> price, face_value |-> face_value,
                          coupon_rate |-> coupon_rate,
                          years_to_maturity |-> years_to_maturity]
              /\ outcome' = r.outcome
              /\ ytm' = r.ytm
    /\ op' = "ytm"
    /\ caller' = "direct"
    /\ pc' = "done"
    /\ UNCHANGED <<tax_calc, ladder, allocation_per_year, ladder_data,
                   year, clock, ticks>>

CallTax ==
    /\ pc = "idle"
    /\ \E income \in Incomes, pension_income \in Pensions :
          /\ args' = [income |-> income, pension_income |-> pension_income]
          /\ tax_calc' = calculate_tax_liability(income, pension_income)
    /\ outcome' = "returned"
    /\ op' = "tax"
    /\ caller' = "direct"
    /\ pc' = "done"
    /\ UNCHANGED <<ytm, ladder, allocation_per_year, ladder_data, year, clock, ticks>>

\* lines 61-63: entering create_bond_ladder
EnterLadder(who, total_investment, ladder_years, target_yield) ==
    /\ pc = "idle"
    /\ op' = "ladder"
    /\ caller' = who
    /\ args' = [total_investment |-> total_investment, ladder_years |-> ladder_years,
                target_yield |-> target_yield]
    /\ IF ladder_years = 0
       THEN /\ outcome' = "ZeroDivisionError"
            /\ pc' = "done"
            /\ UNCHANGED <<allocation_per_year, year>>
       ELSE /\ allocation_per_year' = allocation_of(total_investment, ladder_years)
            /\ year' = 1
            /\ pc' = "loop"
            /\ UNCHANGED outcome
    /\ ladder_data' = <<>>
    /\ UNCHANGED <<ytm, tax_calc, ladder, clock, ticks>>

CallLadder ==
    \E total_investment \in LadderTotals, ladder_years \in LadderYears,
       target_yield \in LadderYields :
       EnterLadder("direct", total_investment, ladder_years, target_yield)

\* main, lines 166-172: the SIPP ladder of the front end
MainSippLadder ==
    \E sipp_value \in SippValues, cash_buffer_percent \in CashBuffers,
       ladder_years \in SliderYears :
       EnterLadder("main", sipp_invested_of(sipp_value, cash_buffer_percent),
                   ladder_years, Dec(45, 10))

\* lines 64-75: one iteration of the for loop
LadderIter ==
    /\ pc = "loop"
    /\ year <= args.ladder_years
    /\ IF IsZero(args.total_investment)
       THEN /\ outcome' = "ZeroDivisionError"
            /\ pc' = "done"
            /\ UNCHANGED <<ladder_data, year>>
       ELSE /\ ladder_data' = Append(ladder_data,
                                 ladder_row(args.total_investment, args.target_yield,
                                            allocation_per_year, year, clock))
            /\ year' = year + 1
            /\ UNCHANGED <<outcome, pc>>
    /\ UNCHANGED <<op, caller, args, ytm, tax_calc, ladder,
                   allocation_per_year, clock, ticks>>

\* line 77
LadderReturn ==
    /\ pc = "loop"
    /\ year > args.ladder_years
    /\ ladder' = ladder_data
    /\ outcome' = "returned"
    /\ pc' = "done"
    /\ UNCHANGED <<op, caller, args, ytm, tax_calc, allocation_per_year,
                   ladder_data, year, clock, ticks>>

\* New Year: the calendar year of the system clock advances
Tick ==
    /\ ticks < MaxTicks
    /\ clock' = clock + 1
    /\ ticks' = ticks + 1
    /\ UNCHANGED <<pc, op, caller, args, outcome, ytm, tax_calc, ladder,
                   allocation_per_year, ladder_data, year>>

NextYtm == CallYtm
NextTax == CallTax
NextLadder == CallLadder \/ MainSippLadder \/ LadderIter \/ LadderReturn \/ Tick

SpecYtm == Init /\ [][NextYtm]_vars
SpecTax == Init /\ [][NextTax]_vars
SpecLadder == Init /\ [][NextLadder]_vars

Next == NextYtm \/ NextTax \/ NextLadder
Spec == Init /\ [][Next]_vars

(***************************************************************************)
(* Properties of calculate_tax_liability.                                  *)
(***************************************************************************)
NonNegative(x) == ~x.neg

TaxDone == pc = "done" /\ op = "tax"

TaxInputsNonNegative ==
    NonNegative(args.income) /\ NonNegative(args.pension_income)

FMin(x, y) == IF FLe(x, y) THEN x ELSE y

\* the part of total between lo and hi (0 when total is below lo)
BandSlice(total, lo, hi) ==
    LET top == FMin(total, FromInt(hi))
    IN  IF FLe(top, FromInt(lo)) THEN Zero ELSE FSub(top, FromInt(lo))

\* the 2024/25 table applied band by band: 0% to 12,570, 20% to 50,270, 40% to
\* 125,140, 45% above
BandReference(total) ==
    FAdd(FAdd(FMul(BandSlice(total, 12570, 50270), Dec(20, 100)),
              FMul(BandSlice(total, 50270, 125140), Dec(40, 100))),
         IF FLe(total, FromInt(125140)) THEN Zero
         ELSE FMul(FSub(total, FromInt(125140)), Dec(45, 100)))

\* C1: for non-negative incomes the returned tax_liability is the band-by-band
\* reference over total = income + pension_income: 0 up to 12,570, and 5,486 for
\* a total of 40,000.
C1_TaxIsBandReference ==
    (TaxDone /\ TaxInputsNonNegative) =>
        LET total == FAdd(args.income, args.pension_income)
        IN  /\ tax_calc.tax_liability = BandReference(total)
            /\ FLe(total, FromInt(12570)) => tax_calc.tax_liability = Zero
            /\ total = FromInt(40000) => tax_calc.tax_liability = FromInt(5486)

C1_Witness ==
    /\ TaxDone
    /\ args.income = FromInt(27000)
    /\ args.pension_income = FromInt(13000)
    /\ tax_calc.tax_liability = FromInt(5486)

\* the totals the model calls calculate_tax_liability with, each with its tax
TaxTable ==
    {[total |-> t, tax |-> tax_of(t)] :
        t \in {FAdd(i, p) : i \in {x \in Incomes : NonNegative(x)},
                            p \in {x \in Pensions : NonNegative(x)}}}

\* the band boundaries, each with the rate of the band above it and that band's end
Boundaries ==
    {[at |-> FromInt(12570),  rate |-> Dec(20, 100), next |-> FromInt(50270)],
     [at |-> FromInt(50270),  rate |-> Dec(40, 100), next |-> FromInt(125140)],
     [at |-> FromInt(125140), rate |-> Dec(45, 100), next |-> FromInt(2000000000)]}

TaxMonotone ==
    \A row \in TaxTable :
        FLe(row.total, tax_calc.gross_income) =>
            FLe(row.tax, tax_calc.tax_liability)

OneBillionth == Dec(1, 1000000000)

\* C2 as stated: tax is non-decreasing in the total, and from each boundary B an
\* increment d inside the next band adds exactly d times that band's rate.
C2_ExactIncrement ==
    (TaxDone /\ TaxInputsNonNegative) =>
        /\ TaxMonotone
        /\ \A b \in Boundaries :
              (FLt(b.at, tax_calc.gross_income) /\ FLe(tax_calc.gross_income, b.next)) =>
                  FSub(tax_calc.tax_liability, tax_of(b.at))
                      = FMul(FSub(tax_calc.gross_income, b.at), b.rate)

\* C2 amended: tax is non-decreasing in the total, and from each boundary B an
\* increment d inside the next band adds d times that band's rate up to the
\* rounding of binary64 arithmetic: the difference from d * rate is at most
\* 1e-9 of tax(B + d).
C2_IncrementWithinRounding ==
    (TaxDone /\ TaxInputsNonNegative) =>
        /\ TaxMonotone
        /\ \A b \in Boundaries :
              (FLt(b.at, tax_calc.gross_income) /\ FLe(tax_calc.gross_income, b.next)) =>
                  FLe(FAbs(FSub(FSub(tax_calc.tax_liability, tax_of(b.at)),
                                FMul(FSub(tax_calc.gross_income, b.at), b.rate))),
                      FMul(OneBillionth, tax_calc.tax_liability))

\* one pound above 50,270: the tax rises by 0.3999999999996362, not by 0.4
C2_Witness ==
    /\ TaxDone
    /\ TaxInputsNonNegative
    /\ tax_calc.gross_income = FromInt(50271)
    /\ FSub(tax_calc.tax_liability, FromInt(7540)) # Dec(40, 100)
    /\ FLt(FromInt(7540), tax_calc.tax_liability)

\* C8: calculate_tax_liability ends in InvalidInput when either income argument
\* is negative, and returns a result for non-negative arguments.
C8_NegativeIncomeRejected ==
    TaxDone =>
        IF TaxInputsNonNegative THEN outcome = "returned"
        ELSE outcome = "InvalidInput"

\* C9: for non-negative incomes gross_income = income + pension_income,
\* tax_liability >= 0, net_income = gross_income - tax_liability, and
\* effective_rate = tax_liability / gross_income * 100, or 0 when gross_income = 0.
C9_TaxResultInvariant ==
    (TaxDone /\ TaxInputsNonNegative) =>
        /\ tax_calc.gross_income = FAdd(args.income, args.pension_income)
        /\ NonNegative(tax_calc.tax_liability)
        /\ tax_calc.net_income = FSub(tax_calc.gross_income, tax_calc.tax_liability)
        /\ tax_calc.effective_rate =
              IF IsZero(tax_calc.gross_income) THEN Zero
              ELSE FMul(FDiv(tax_calc.tax_liability, tax_calc.gross_income), Hundred)

\* both cases of the effective rate are reached: a zero gross income, and a taxed one
C9_Witness ==
    /\ TaxDone
    /\ TaxInputsNonNegative
    /\ IsZero(tax_calc.gross_income)
    /\ tax_calc.effective_rate = Zero

(***************************************************************************)
(* Properties of create_bond_ladder.                                       *)
(***************************************************************************)
LadderDone == pc = "done" /\ op = "ladder"

LadderReturned == LadderDone /\ outcome = "returned"

\* the float sum of a column, accumulated row after row from 0
RECURSIVE SumAllocation(_, _)
SumAllocation(rows, n) ==
    IF n = 0 THEN Zero ELSE FAdd(SumAllocation(rows, n - 1), rows[n].Allocation)

RECURSIVE SumPercentage(_, _)
SumPercentage(rows, n) ==
    IF n = 0 THEN Zero
    ELSE FAdd(SumPercentage(rows, n - 1), rows[n].Allocation_Percentage)

PositiveLadderCall ==
    /\ LadderReturned
    /\ args.ladder_years >= 1
    /\ FLt(Zero, args.total_investment)

\* C3 as stated: for total_investment > 0 and ladder_years >= 1 the Allocation
\* values sum to total_investment and the Allocation_Percentage values to 100.
C3_SumsExact ==
    PositiveLadderCall =>
        /\ SumAllocation(ladder, Len(ladder)) = args.total_investment
        /\ SumPercentage(ladder, Len(ladder)) = Hundred

\* C3 amended: for total_investment > 0 and ladder_years >= 1 the Allocation
\* values sum to total_investment and the Allocation_Percentage values to 100
\* within floating-point tolerance (a relative error of at most 1e-9).
C3_SumsWithinTolerance ==
    PositiveLadderCall =>
        /\ FLe(FAbs(FSub(SumAllocation(ladder, Len(ladder)), args.total_investment)),
               FMul(OneBillionth, args.total_investment))
        /\ FLe(FAbs(FSub(SumPercentage(ladder, Len(ladder)), Hundred)),
               FMul(OneBillionth, Hundred))

\* 100,000 over 6 years: six allocations of 16666.666666666668 add up to
\* 100000.00000000001
C3_Witness ==
    /\ PositiveLadderCall
    /\ args.ladder_years = 6
    /\ args.total_investment = FromInt(100000)
    /\ Len(ladder) = 6
    /\ FLt(args.total_investment, SumAllocation(ladder, Len(ladder)))

C5_ConsecutiveYears ==
    (LadderReturned /\ args.ladder_years >= 1) =>
        /\ Len(ladder) = args.ladder_years
        /\ \E start_year \in StartYear..(StartYear + MaxTicks) :
              \A k \in 1..Len(ladder) : ladder[k].Maturity_Year = start_year + k

\* C6: with total_investment = 0 and ladder_years >= 1 the call returns
\* ladder_years rows, each with Allocation 0 and Allocation_Percentage 0.
C6_ZeroInvestmentReturns ==
    (LadderDone /\ args.ladder_years >= 1 /\ IsZero(args.total_investment)) =>
        /\ outcome = "returned"
        /\ Len(ladder) = args.ladder_years
        /\ \A k \in 1..Len(ladder) :
              IsZero(ladder[k].Allocation) /\ IsZero(ladder[k].Allocation_Percentage)

(***************************************************************************)
(* Properties of calculate_yield_to_maturity.                              *)
(***************************************************************************)
YtmDone == pc = "done" /\ op = "ytm"

\* C7: a zero years_to_maturity, a zero face_value + price and a ladder_years
\* below 1 each end in InvalidInput.
C7_InvalidInputRejected ==
    /\ ( /\ YtmDone
         /\ \/ IsZero(args.years_to_maturity)
            \/ IsZero(FAdd(args.face_value, args.price)) ) => outcome = "InvalidInput"
    /\ (LadderDone /\ args.ladder_years < 1) => outcome = "InvalidInput"

ParBond ==
    /\ YtmDone
    /\ args.price = args.face_value
    /\ FLt(Zero, args.face_value)
    /\ NonNegative(args.coupon_rate)
    /\ FLt(Zero, args.years_to_maturity)

\* C10 as stated: for price = face_value > 0, coupon_rate >= 0 and
\* years_to_maturity > 0 the result is exactly coupon_rate.
C10_ParYieldExact ==
    ParBond => (outcome = "returned" /\ ytm = args.coupon_rate)

TwoToMinus50 == [neg |-> FALSE, m |-> <<1>>, e |-> -50]

\* C10 amended: for price = face_value > 0, coupon_rate >= 0 and
\* years_to_maturity > 0 the result is coupon_rate up to the rounding of binary64
\* arithmetic (a relative error of at most 2^-50), and it does not depend on
\* years_to_maturity.
C10_ParYieldWithinRounding ==
    ParBond =>
        /\ outcome = "returned"
        /\ FLe(FAbs(FSub(ytm, args.coupon_rate)), FMul(TwoToMinus50, args.coupon_rate))
        /\ ytm = calculate_yield_to_maturity(args.price, args.face_value,
                                             args.coupon_rate, FromInt(1)).ytm

\* a par bond of face value 100 with a 7% coupon: the result is 7.000000000000001
C10_Witness ==
    /\ ParBond
    /\ args.face_value = Hundred
    /\ args.coupon_rate = FromInt(7)
    /\ FLt(args.coupon_rate, ytm)

==========================================================================
